---- MODULE Spec2Model ----
(***************************************************************************)
(* Model of the io-ensure macros (src/src/lib.rs): format_err!, ensure!,   *)
(* ensure_eq! and ensure_ne!.                                              *)
(*                                                                         *)
(* A run is one execution of an enclosing function whose body is a         *)
(* sequence of macro invocations followed by the code after the last one.  *)
(* Each action executes one whole invocation: arm selection, evaluation of *)
(* the operand expressions (which may increment a shared counter), the     *)
(* construction of the io::Error and the early return or panic.            *)
(***************************************************************************)
EXTENDS Integers, Sequences, FiniteSets, TLC

VARIABLES
    status,     \* "running" | "err" (returned Err) | "panic" | "done" (returned Ok)
    result,     \* the io::Error inside the returned Err, NoError otherwise
    built,      \* the io::Error bound by the last `let e = format_err!(..)`
    counter,    \* the counter that effectful operand expressions increment
    allocs,     \* heap allocations performed so far
    log,        \* evaluation events in execution order: [g, what]
    hist,       \* per executed invocation: [macro, check, exit]
    last        \* the invocation executed last, with the counter and the
                \* allocation count before it

vars == <<status, result, built, counter, allocs, log, hist, last>>

----------------------------------------------------------------------------
(* Bounds *)

MaxStmts == 2      \* macro invocations in the enclosing function

----------------------------------------------------------------------------
(* Values *)

Kinds == {"Other", "Interrupted"}

Hole == "{}"

\* String values are sequences of tokens; Hole is the two characters "{}".
Lits == {<<"a", Hole>>, <<Hole, "b", Hole>>}

NumHoles(t) == Cardinality({i \in DOMAIN t : t[i] = Hole})

\* A format argument: a number whose Display impl works, or a value whose
\* Display impl returns fmt::Error.
ArgVals == {[ok |-> TRUE, v |-> 12], [ok |-> FALSE, v |-> 0]}

NoPayload == [present |-> FALSE, data |-> <<>>]
Payload(s) == [present |-> TRUE, data |-> s]

NoError == [some |-> FALSE, kind |-> "Other", payload |-> NoPayload]
Error(k, p) == [some |-> TRUE, kind |-> k, payload |-> p]

\* The tokens after `$kind` at a call site: no message, a literal or another
\* expression, the format arguments, and whether a comma follows the message.
\* Only invocations that compile: format! wants a literal template with one
\* hole per argument.
MsgArgs ==
    {[msg |-> "absent", text |-> <<>>, args |-> <<>>, comma |-> c] : c \in BOOLEAN}
    \cup {[msg |-> "literal", text |-> t, args |-> <<>>, comma |-> c] :
            t \in Lits, c \in BOOLEAN}
    \cup {[msg |-> "expr", text |-> t, args |-> <<>>, comma |-> FALSE] : t \in Lits}
    \cup UNION {{[msg |-> "literal", text |-> t, args |-> a, comma |-> TRUE] :
                    a \in [1..NumHoles(t) -> ArgVals]} :
                 t \in {x \in Lits : NumHoles(x) >= 1}}

\* Condition expressions: `true`, `false`, `{ n += 1; n == 1 }` and
\* `{ n += 1; false }`.
Atoms == {[op |-> "atom", eff |-> FALSE, test |-> "T"],
          [op |-> "atom", eff |-> FALSE, test |-> "F"],
          [op |-> "atom", eff |-> TRUE, test |-> "first"],
          [op |-> "atom", eff |-> TRUE, test |-> "F"]}

\* Comparison operands: the constant 1, or `{ n += 1; n }`.
Operands == {[eff |-> FALSE, base |-> 1], [eff |-> TRUE, base |-> 0]}

Compare(o, l, r) == [op |-> o, l |-> l, r |-> r]

----------------------------------------------------------------------------
(* Expression evaluation *)

\* Evaluates one comparison operand with the counter at n.
EvalOperand(e, n) ==
    LET n1 == IF e.eff THEN n + 1 ELSE n
    IN  [val |-> IF e.eff THEN n1 ELSE e.base, n |-> n1]

\* Evaluates a condition expression once: an atom, or `l == r` / `l != r`,
\* whose operands are evaluated left to right.
EvalCond(c, n) ==
    IF c.op = "atom"
    THEN LET n1 == IF c.eff THEN n + 1 ELSE n
         IN  [val |-> CASE c.test = "T" -> TRUE
                        [] c.test = "F" -> FALSE
                        [] OTHER -> n1 = 1,
              n |-> n1,
              log |-> <<"cond">>]
    ELSE LET a == EvalOperand(c.l, n)
             b == EvalOperand(c.r, a.n)
         IN  [val |-> IF c.op = "eq" THEN a.val = b.val ELSE a.val # b.val,
              n |-> b.n,
              log |-> <<"left", "right">>]

----------------------------------------------------------------------------
(* format! *)

DigitTok(d) == <<"0", "1", "2", "3", "4", "5", "6", "7", "8", "9">>[d + 1]

RECURSIVE Digits(_)
Digits(v) == IF v < 10 THEN <<DigitTok(v)>> ELSE Digits(v \div 10) \o <<DigitTok(v % 10)>>

\* Display::fmt of a format argument.
Display(a) == [ok |-> a.ok, str |-> IF a.ok THEN Digits(a.v) ELSE <<>>]

\* format!(t, a...): every hole of t is replaced by the Display output of the
\* next argument; fails when a Display impl returns an error.
RECURSIVE format(_, _)
format(t, a) ==
    IF t = <<>> THEN [ok |-> TRUE, str |-> <<>>]
    ELSE IF Head(t) = Hole
         THEN LET d == Display(Head(a))
                  rest == format(Tail(t), Tail(a))
              IN  [ok |-> d.ok /\ rest.ok, str |-> d.str \o rest.str]
         ELSE LET rest == format(Tail(t), a)
              IN  [ok |-> rest.ok, str |-> <<Head(t)>> \o rest.str]

----------------------------------------------------------------------------
(* Arm selection *)

\* Whether the tokens m match a macro arm.
Matches(arm, m) ==
    CASE arm = "literal" -> m.msg = "literal" /\ m.args = <<>>
      [] arm = "expr"    -> m.msg # "absent" /\ m.args = <<>>
      [] arm = "args"    -> m.msg # "absent" /\ (m.args # <<>> \/ m.comma)
      [] arm = "none"    -> m.msg = "absent" /\ m.args = <<>>

\* macro_rules! takes the first arm, in source order, that matches.
FirstArm(order, m) ==
    order[CHOOSE i \in DOMAIN order :
            /\ Matches(order[i], m)
            /\ \A j \in 1..(i - 1) : ~Matches(order[j], m)]

FormatErrArms == <<"literal", "expr", "args", "none">>
EnsureArms == <<"literal", "expr", "none", "args">>
EnsureEqArms == <<"literal", "expr", "args", "none">>
EnsureNeArms == <<"literal", "expr", "args", "none">>

\* The tokens an arm of ensure!, ensure_eq! or ensure_ne! passes on after
\* `$kind` to the macro it expands to.
Forward(arm, m) ==
    CASE arm \in {"literal", "expr"} -> [m EXCEPT !.comma = FALSE]
      [] arm = "none" -> [msg |-> "absent", text |-> <<>>, args |-> <<>>, comma |-> FALSE]
      [] arm = "args" -> m

----------------------------------------------------------------------------
(* The macros *)

\* The arm of format_err! that the tokens m select, given what each arm
\* expands to.
FormatErrWith(m, onNone, onMsg, onArgs) ==
    LET arm == FirstArm(FormatErrArms, m)
    IN  CASE arm \in {"literal", "expr"} -> onMsg
          [] arm = "args" -> onArgs
          [] arm = "none" -> onNone

\* io::Error::from($kind): the kind alone, nothing allocated.
FromKind(kind) ==
    [panic |-> FALSE, err |-> Error(kind, NoPayload), allocs |-> 0, log |-> <<"kind">>]

\* io::Error::new($kind, $msg): the message, boxed, is the payload.
NewMsg(kind, m) ==
    [panic |-> FALSE, err |-> Error(kind, Payload(m.text)), allocs |-> 1,
     log |-> <<"kind", "msg">>]

\* io::Error::new($kind, format!($msg, $($arg)*)): the rendered String is
\* the payload; format! panics when a formatting trait returns an error.
NewFormat(kind, m) ==
    LET f == format(m.text, m.args)
        evs == <<"kind">> \o [i \in DOMAIN m.args |-> "arg"]
    IN  IF f.ok
        THEN [panic |-> FALSE, err |-> Error(kind, Payload(f.str)), allocs |-> 2, log |-> evs]
        ELSE [panic |-> TRUE, err |-> NoError, allocs |-> 0, log |-> evs]

\* The no-message arm written as io::Error::new($kind, ""): a boxed, empty payload.
format_err_boxed_none(kind, m) ==
    FormatErrWith(m,
        [panic |-> FALSE, err |-> Error(kind, Payload(<<>>)), allocs |-> 1, log |-> <<"kind">>],
        NewMsg(kind, m), NewFormat(kind, m))

\* The message-only arms written with format!($msg): the holes are consumed.
format_err_interpolated(kind, m) ==
    FormatErrWith(m, FromKind(kind),
        [panic |-> FALSE,
         err |-> Error(kind, Payload(SelectSeq(m.text, LAMBDA x : x # Hole))),
         allocs |-> 2, log |-> <<"kind", "msg">>],
        NewFormat(kind, m))

\* The template arm written as io::Error::new($kind, $msg): the arguments are dropped.
format_err_verbatim(kind, m) ==
    FormatErrWith(m, FromKind(kind), NewMsg(kind, m),
        [panic |-> FALSE, err |-> Error(kind, Payload(m.text)), allocs |-> 1,
         log |-> <<"kind", "msg">>])

\* The template arm written with a write! whose fmt::Error is discarded.
format_err_swallow(kind, m) ==
    FormatErrWith(m, FromKind(kind), NewMsg(kind, m),
        LET f == format(m.text, m.args)
        IN  [panic |-> FALSE,
             err |-> Error(kind, Payload(IF f.ok THEN f.str ELSE <<>>)),
             allocs |-> 2, log |-> <<"kind">> \o [i \in DOMAIN m.args |-> "arg"]])

\* format_err!(kind, m...): what the selected arm builds, the allocations it
\* makes and the expressions it evaluates, in order.
format_err(kind, m) ==
    FormatErrWith(m, FromKind(kind), NewMsg(kind, m), NewFormat(kind, m))

\* The check c failed: `return Err(fe)`, after fe was built (or panicked).
Failed(c, fe) ==
    [exit |-> IF fe.panic THEN "panic" ELSE "err", check |-> FALSE, err |-> fe.err,
     n |-> c.n, allocs |-> fe.allocs, log |-> c.log \o fe.log]

\* The check c passed: nothing but the condition was evaluated.
Passed(c) ==
    [exit |-> "pass", check |-> TRUE, err |-> NoError, n |-> c.n, allocs |-> 0,
     log |-> c.log]

\* `if $cond { return .. }`: the negation is missing.
ensure_inverted(cond, kind, m, n) ==
    LET c == EvalCond(cond, n)
        fe == format_err(kind, Forward(FirstArm(EnsureArms, m), m))
    IN  IF c.val THEN [Failed(c, fe) EXCEPT !.check = TRUE]
        ELSE [Passed(c) EXCEPT !.check = FALSE]

\* `let e = format_err!(..); if !$cond { return Err(e); }`: the error is
\* built before the check.
ensure_eager(cond, kind, m, n) ==
    LET fe == format_err(kind, Forward(FirstArm(EnsureArms, m), m))
        c == EvalCond(cond, n)
    IN  IF fe.panic
        THEN [exit |-> "panic", check |-> TRUE, err |-> NoError, n |-> n,
              allocs |-> 0, log |-> fe.log]
        ELSE IF c.val
             THEN [Passed(c) EXCEPT !.allocs = fe.allocs, !.log = fe.log \o c.log]
             ELSE [Failed(c, fe) EXCEPT !.log = fe.log \o c.log]

\* `if !$cond { if !$cond { return .. } }`: the condition is expanded twice.
ensure_twice(cond, kind, m, n) ==
    LET c1 == EvalCond(cond, n)
        c2 == EvalCond(cond, c1.n)
        c == [val |-> c2.val, n |-> c2.n, log |-> c1.log \o c2.log]
        fe == format_err(kind, Forward(FirstArm(EnsureArms, m), m))
    IN  IF c1.val THEN Passed(c1)
        ELSE IF c2.val THEN [Passed(c) EXCEPT !.check = FALSE]
        ELSE Failed(c, fe)

\* `if !$cond { Err(format_err!(..)); }`: the `return` is missing.
ensure_continue(cond, kind, m, n) ==
    LET c == EvalCond(cond, n)
        fe == format_err(kind, Forward(FirstArm(EnsureArms, m), m))
    IN  IF c.val THEN Passed(c)
        ELSE [Failed(c, fe) EXCEPT !.exit = IF fe.panic THEN "panic" ELSE "pass"]

\* ensure!(cond, kind, m...): `if !$cond { return Err(format_err!(..)); }`
\* with the counter at n.
ensure(cond, kind, m, n) ==
    LET arm == FirstArm(EnsureArms, m)
        c == EvalCond(cond, n)
    IN  IF c.val THEN Passed(c)
        ELSE Failed(c, format_err(kind, Forward(arm, m)))

\* ensure_eq! expanding to ensure!($left != $right, ..).
ensure_eq_as_ne(left, right, kind, m, n) ==
    ensure(Compare("ne", left, right), kind, Forward(FirstArm(EnsureEqArms, m), m), n)

\* ensure_ne! expanding to ensure!($left == $right, ..).
ensure_ne_as_eq(left, right, kind, m, n) ==
    ensure(Compare("eq", left, right), kind, Forward(FirstArm(EnsureNeArms, m), m), n)

\* ensure_eq!(left, right, kind, m...): ensure!($left == $right, kind, m...)
ensure_eq(left, right, kind, m, n) ==
    LET arm == FirstArm(EnsureEqArms, m)
    IN  ensure(Compare("eq", left, right), kind, Forward(arm, m), n)

\* ensure_ne!(left, right, kind, m...): ensure!($left != $right, kind, m...)
ensure_ne(left, right, kind, m, n) ==
    LET arm == FirstArm(EnsureNeArms, m)
    IN  ensure(Compare("ne", left, right), kind, Forward(arm, m), n)

----------------------------------------------------------------------------
(* The enclosing function *)

NoCond == [op |-> "atom", eff |-> FALSE, test |-> "T"]
NoMsg == [msg |-> "absent", text |-> <<>>, args |-> <<>>, comma |-> FALSE]

Tag(g, evs) == [i \in DOMAIN evs |-> [g |-> g, what |-> evs[i]]]

Init ==
    /\ status = "running"
    /\ result = NoError
    /\ built = NoError
    /\ counter = 0
    /\ allocs = 0
    /\ log = <<>>
    /\ hist = <<>>
    /\ last = [macro |-> "none", cond |-> NoCond, kind |-> "Other", m |-> NoMsg, n0 |-> 0, a0 |-> 0]

CanStep == status = "running" /\ Len(hist) < MaxStmts

\* A guard ran with outcome r: pass on, return Err, or panic.
Guard(macro, cond, kind, m, r) ==
    /\ status' = CASE r.exit = "pass" -> "running"
                   [] r.exit = "err" -> "err"
                   [] OTHER -> "panic"
    /\ result' = IF r.exit = "err" THEN r.err ELSE result
    /\ counter' = r.n
    /\ allocs' = allocs + r.allocs
    /\ log' = log \o Tag(Len(hist) + 1, r.log)
    /\ hist' = Append(hist, [macro |-> macro, check |-> r.check, exit |-> r.exit])
    /\ last' = [macro |-> macro, cond |-> cond, kind |-> kind, m |-> m, n0 |-> counter, a0 |-> allocs]
    /\ UNCHANGED built

\* let e = format_err!(kind, m...);
FormatErrStmt ==
    /\ CanStep
    /\ \E kind \in Kinds, m \in MsgArgs :
         LET fe == format_err(kind, m)
         IN  /\ status' = IF fe.panic THEN "panic" ELSE "running"
             /\ built' = IF fe.panic THEN built ELSE fe.err
             /\ allocs' = allocs + fe.allocs
             /\ log' = log \o Tag(Len(hist) + 1, fe.log)
             /\ hist' = Append(hist, [macro |-> "format_err", check |-> TRUE,
                                      exit |-> IF fe.panic THEN "panic" ELSE "built"])
             /\ last' = [macro |-> "format_err", cond |-> NoCond, kind |-> kind,
                         m |-> m, n0 |-> counter, a0 |-> allocs]
             /\ UNCHANGED <<result, counter>>

\* ensure!(cond, kind, m...);
EnsureStmt ==
    /\ CanStep
    /\ \E cond \in Atoms, kind \in Kinds, m \in MsgArgs :
         Guard("ensure", cond, kind, m, ensure(cond, kind, m, counter))

\* ensure_eq!(left, right, kind, m...);
EnsureEqStmt ==
    /\ CanStep
    /\ \E left \in Operands, right \in Operands, kind \in Kinds, m \in MsgArgs :
         Guard("ensure_eq", Compare("eq", left, right), kind, m,
               ensure_eq(left, right, kind, m, counter))

\* ensure_ne!(left, right, kind, m...);
EnsureNeStmt ==
    /\ CanStep
    /\ \E left \in Operands, right \in Operands, kind \in Kinds, m \in MsgArgs :
         Guard("ensure_ne", Compare("ne", left, right), kind, m,
               ensure_ne(left, right, kind, m, counter))

\* The code after the last guard: the function returns Ok(()).
Finish ==
    /\ status = "running"
    /\ status' = "done"
    /\ UNCHANGED <<result, built, counter, allocs, log, hist, last>>

Next == FormatErrStmt \/ EnsureStmt \/ EnsureEqStmt \/ EnsureNeStmt \/ Finish

Spec == Init /\ [][Next]_vars

----------------------------------------------------------------------------
(* Vocabulary of the properties *)

Ran == hist # <<>>
Top == hist[Len(hist)]
Guards == {"ensure", "ensure_eq", "ensure_ne"}
LastIsGuard == Ran /\ last.macro \in Guards
LastIsCompare == Ran /\ last.macro \in {"ensure_eq", "ensure_ne"}

\* The value of the last guard's condition, from the expression alone.
CondVal == EvalCond(last.cond, last.n0).val
LeftVal == EvalOperand(last.cond.l, last.n0)
RightVal == EvalOperand(last.cond.r, LeftVal.n)

\* What format_err! builds from the last invocation's kind and message tokens.
LastErr == format_err(last.kind, last.m)

\* A Display impl of one of the last invocation's format arguments fails.
RenderFails == \E i \in DOMAIN last.m.args : ~last.m.args[i].ok

Continued == status \in {"running", "done"}

\* The evaluation events of invocation g, in order.
EventsOf(g) == SelectSeq(log, LAMBDA e : e.g = g)
Count(g, what) == Len(SelectSeq(log, LAMBDA e : e.g = g /\ e.what = what))

\* How many of the last invocation's operand expressions increment the counter.
Effects ==
    IF last.macro = "ensure" THEN (IF last.cond.eff THEN 1 ELSE 0)
    ELSE IF last.macro \in {"ensure_eq", "ensure_ne"}
         THEN (IF last.cond.l.eff THEN 1 ELSE 0) + (IF last.cond.r.eff THEN 1 ELSE 0)
         ELSE 0

----------------------------------------------------------------------------
(* C1 *)

----------------------------------------------------------------------------
(* C2 *)

\* C2: a guard whose check passes lets the function continue and does nothing
\* but evaluate its condition or its two operands: no error is returned or
\* built, kind, message and format arguments are not evaluated, and nothing
\* is allocated.
C2_PassingGuardHasNoEffect ==
    (LastIsGuard /\ CondVal) =>
        /\ Continued
        /\ Top.exit = "pass"
        /\ result = NoError
        /\ allocs = last.a0
        /\ EventsOf(Len(hist)) =
              Tag(Len(hist), IF last.macro = "ensure" THEN <<"cond">>
                             ELSE <<"left", "right">>)

C2_Witness ==
    /\ LastIsGuard /\ CondVal /\ status = "done"
    /\ last.m.args # <<>> /\ RenderFails
    /\ Len(hist) = 2 /\ last.a0 > 0

----------------------------------------------------------------------------
(* C3 *)

\* C3: every ensure! evaluated its condition exactly once and every
\* ensure_eq!/ensure_ne! evaluated each operand exactly once, whatever the
\* outcome and the argument shape; the counter rose by one per incrementing
\* operand expression of the guard.
C3_OperandsEvaluatedOnce ==
    /\ \A g \in DOMAIN hist :
          /\ hist[g].macro = "ensure" =>
                Count(g, "cond") = 1 /\ Count(g, "left") = 0 /\ Count(g, "right") = 0
          /\ hist[g].macro \in {"ensure_eq", "ensure_ne"} =>
                Count(g, "cond") = 0 /\ Count(g, "left") = 1 /\ Count(g, "right") = 1
    /\ LastIsGuard => counter = last.n0 + Effects

C3_Witness ==
    /\ Ran /\ last.macro = "ensure_eq" /\ Effects = 2
    /\ status = "err" /\ counter = last.n0 + 2 /\ last.n0 > 0

----------------------------------------------------------------------------
(* C4 *)

----------------------------------------------------------------------------
(* C5 *)

----------------------------------------------------------------------------
(* C6 *)

\* The last invocation produced an error value: format_err! bound one, or a
\* guard returned one.
Produced == (last.macro = "format_err" /\ Top.exit = "built") \/ status = "err"
TheError == IF last.macro = "format_err" THEN built ELSE result

\* C6: with a kind K and no message, with or without a trailing comma, the
\* error format_err! builds, and the error a failing guard returns, has kind K
\* and no payload, and building it allocates nothing.
C6_NoMessageNoPayloadNoAllocation ==
    (Ran /\ last.m.msg = "absent") =>
        /\ Top.exit # "panic"
        /\ (last.macro = "format_err" \/ ~CondVal) =>
              /\ Produced
              /\ TheError = Error(last.kind, NoPayload)
        /\ allocs = last.a0

C6_Witness ==
    /\ Ran /\ last.macro = "format_err" /\ last.m.msg = "absent" /\ last.m.comma
    /\ built = Error("Interrupted", NoPayload)
    /\ Len(hist) = 2 /\ allocs = last.a0 /\ allocs > 0

----------------------------------------------------------------------------
(* C7 *)

\* C7: with a kind K and a message M given alone, as a literal or as an
\* expression, the error has kind K and M itself as payload: no interpolation
\* is applied, so the "{}" of M are kept.
C7_MessageAloneIsVerbatim ==
    (Ran /\ last.m.msg # "absent" /\ last.m.args = <<>>) =>
        /\ Top.exit # "panic"
        /\ (last.macro = "format_err" \/ ~CondVal) =>
              /\ Produced
              /\ TheError = Error(last.kind, Payload(last.m.text))

C7_Witness ==
    /\ Ran /\ last.macro = "format_err" /\ last.m.msg = "expr"
    /\ built.payload = Payload(<<Hole, "b", Hole>>)

----------------------------------------------------------------------------
(* C8 *)

----------------------------------------------------------------------------
(* C9 *)

----------------------------------------------------------------------------
(* C10 *)

\* The guard numbers of the evaluation events never decrease.
InProgramOrder == \A i, j \in DOMAIN log : i < j => log[i].g <= log[j].g

\* Guard g evaluated its condition, or its two operands, once.
EvaluatedOnce(g) ==
    IF hist[g].macro = "ensure" THEN Count(g, "cond") = 1
    ELSE Count(g, "left") = 1 /\ Count(g, "right") = 1

====
